---- MODULE Spec2Model ----
(***************************************************************************)
(* Model of the storage-schema policy engine of go-whisper-tools:          *)
(* duration and retention-list codecs (lib/format.go, lib/schema.go),      *)
(* the storage-schemas.conf parser (lib/schema.go), schema counting        *)
(* (lib/schema.go) and the check-retention loop of main (cmd/schema.go).   *)
(*                                                                         *)
(* Go strings are modelled as sequences of one-character strings, so that  *)
(* formatting and parsing are computed character by character.             *)
(***************************************************************************)
EXTENDS Integers, Sequences, FiniteSets, TLC

\* ------------------------------------------------------------------ bounds
MaxSecs == 125      \* seconds values -MaxSecs..MaxSecs are enumerated densely
MaxMult == 2        \* multiples -MaxMult..MaxMult of every unit are enumerated
MaxSpecs == 2       \* longest retention list enumerated
MaxLines == 4       \* longest policy file enumerated, in lines
MaxFiles == 3       \* longest list of discovered files enumerated
MaxSchemas == 2     \* longest schema list handed to counting / checking
MaxTokens == 2      \* most comma-separated tokens of a retention text

\* ------------------------------------------------- Go integer arithmetic
\* Go's / truncates toward zero and % takes the sign of the dividend.
GoDiv(a, b) == IF a >= 0 THEN a \div b ELSE -((-a) \div b)

GoMod(a, b) == a - b * GoDiv(a, b)

\* ------------------------------------------------------- string helpers
DigitChars == <<"0", "1", "2", "3", "4", "5", "6", "7", "8", "9">>

IsDigit(c) == \E i \in 1..10 : DigitChars[i] = c

DigitVal(c) == (CHOOSE i \in 1..10 : DigitChars[i] = c) - 1

RECURSIVE FormatUint(_)
FormatUint(n) ==
    IF n < 10 THEN <<DigitChars[n + 1]>>
    ELSE FormatUint(n \div 10) \o <<DigitChars[(n % 10) + 1]>>

\* fmt.Sprintf("%d", n)
FormatInt(n) == IF n < 0 THEN <<"-">> \o FormatUint(-n) ELSE FormatUint(n)

RECURSIVE ParseUint(_)
ParseUint(s) ==
    IF s = <<>> THEN 0
    ELSE 10 * ParseUint(SubSeq(s, 1, Len(s) - 1)) + DigitVal(s[Len(s)])

AtoiDigits(negative, digits) ==
    IF digits = <<>> \/ \E i \in 1..Len(digits) : ~IsDigit(digits[i])
    THEN [ok |-> FALSE, val |-> 0]
    ELSE [ok |-> TRUE,
          val |-> IF negative THEN -ParseUint(digits) ELSE ParseUint(digits)]

\* strconv.Atoi: optional sign, then one or more decimal digits
Atoi(s) ==
    IF s # <<>> /\ s[1] \in {"+", "-"} THEN AtoiDigits(s[1] = "-", Tail(s))
    ELSE AtoiDigits(FALSE, s)

RECURSIVE TrimLeft(_)
TrimLeft(s) == IF s # <<>> /\ s[1] = " " THEN TrimLeft(Tail(s)) ELSE s

RECURSIVE TrimRight(_)
TrimRight(s) ==
    IF s # <<>> /\ s[Len(s)] = " " THEN TrimRight(SubSeq(s, 1, Len(s) - 1))
    ELSE s

\* strings.TrimSpace
TrimSpace(s) == TrimRight(TrimLeft(s))

\* strings.Index for a one-character separator, 1-based; 0 when absent
Index(s, sep) ==
    IF \A i \in 1..Len(s) : s[i] # sep THEN 0
    ELSE CHOOSE i \in 1..Len(s) : s[i] = sep /\ \A j \in 1..(i - 1) : s[j] # sep

\* strings.Split(s, sep) for a one-character separator: always at least one
\* field, empty fields are kept
RECURSIVE SplitAt(_, _, _)
SplitAt(s, sep, k) ==
    IF k = 0 THEN <<s>>
    ELSE <<SubSeq(s, 1, k - 1)>>
         \o SplitAt(SubSeq(s, k + 1, Len(s)), sep,
                    Index(SubSeq(s, k + 1, Len(s)), sep))

Split(s, sep) == SplitAt(s, sep, Index(s, sep))

\* strings.Join(parts, sep)
RECURSIVE Join(_, _)
Join(parts, sep) ==
    IF parts = <<>> THEN <<>>
    ELSE IF Len(parts) = 1 THEN parts[1]
    ELSE parts[1] \o sep \o Join(Tail(parts), sep)

\* make([]string, n): n empty strings
MakeStrings(n) == [i \in 1..n |-> <<>>]

\* ------------------------------------------------------- duration codec
Year == 31536000
Day == 86400
Hour == 3600
Minute == 60

\* the unit table of ToHuman, largest first
units == << [seconds |-> Year, symbol |-> "y"],
            [seconds |-> Day, symbol |-> "d"],
            [seconds |-> Hour, symbol |-> "h"],
            [seconds |-> Minute, symbol |-> "m"] >>

RECURSIVE ToHumanFrom(_, _)
ToHumanFrom(seconds, i) ==
    IF i > Len(units) THEN FormatInt(seconds) \o <<"s">>
    ELSE IF GoMod(seconds, units[i].seconds) = 0
         THEN FormatInt(GoDiv(seconds, units[i].seconds)) \o <<units[i].symbol>>
         ELSE ToHumanFrom(seconds, i + 1)

\* a ToHuman that picks the largest unit not exceeding the value, exact or not
RECURSIVE ToHumanTruncFrom(_, _)
ToHumanTruncFrom(seconds, i) ==
    IF i > Len(units) THEN FormatInt(seconds) \o <<"s">>
    ELSE IF seconds >= units[i].seconds \/ -seconds >= units[i].seconds
         THEN FormatInt(GoDiv(seconds, units[i].seconds)) \o <<units[i].symbol>>
         ELSE ToHumanTruncFrom(seconds, i + 1)

ToHumanTrunc(seconds) ==
    IF seconds = 0 THEN <<"0", "s">> ELSE ToHumanTruncFrom(seconds, 1)

ToHuman(seconds) ==
    IF seconds = 0 THEN <<"0", "s">> ELSE ToHumanFrom(seconds, 1)

\* the switch of fromHuman on the unit character, val being the parsed number
UnitSwitch(unit, val) ==
    IF unit \in {"s", "S"} THEN [ok |-> TRUE, val |-> val]
    ELSE IF unit \in {"m", "M"} THEN [ok |-> TRUE, val |-> val * 60]
    ELSE IF unit \in {"h", "H"} THEN [ok |-> TRUE, val |-> val * 3600]
    ELSE IF unit \in {"d", "D"} THEN [ok |-> TRUE, val |-> val * 86400]
    ELSE IF unit \in {"y", "Y"} THEN [ok |-> TRUE, val |-> val * 31536000]
    ELSE [ok |-> FALSE, val |-> -1]

\* fromHuman after strconv.Atoi(numStr)
FromHumanNum(unit, num) ==
    IF ~num.ok THEN [ok |-> FALSE, val |-> 0] ELSE UnitSwitch(unit, num.val)

\* fromHuman after s = strings.TrimSpace(s)
FromHumanTrimmed(s) ==
    IF s = <<>> THEN [ok |-> FALSE, val |-> -1]
    ELSE FromHumanNum(s[Len(s)], Atoi(SubSeq(s, 1, Len(s) - 1)))

fromHuman(str) == FromHumanTrimmed(TrimSpace(str))

\* ------------------------------------------------- retention-list codec
\* ArchiveSpec.toHuman
SpecToHuman(spec) ==
    ToHuman(spec.SecondsPerPoint) \o <<":">> \o ToHuman(spec.RetentionSecs)

\* the loop `for _, i := range specs { parts = append(parts, i.toHuman()) }`
AppendHuman(parts, specs) ==
    parts \o [i \in 1..Len(specs) |-> SpecToHuman(specs[i])]

\* lib.FormatRetentionList as first written: parts := make([]string, len(specs))
FormatRetentionListPrealloc(specs) ==
    Join(AppendHuman(MakeStrings(Len(specs)), specs), <<",">>)

\* lib.FormatRetentionList: parts := make([]string, 0, len(specs))
FormatRetentionList(specs) == Join(AppendHuman(<<>>, specs), <<",">>)

\* formatRetentionList of the stand-alone tool: make([]string, len(specs))
formatRetentionList(specs) ==
    Join(AppendHuman(MakeStrings(Len(specs)), specs), <<",">>)

\* a parseRetentionSpec that stores the two durations the wrong way round
PairResultSwapped(resS, retS) ==
    IF ~resS.ok THEN [ok |-> FALSE, spec |-> <<>>]
    ELSE IF ~retS.ok THEN [ok |-> FALSE, spec |-> <<>>]
    ELSE [ok |-> TRUE,
          spec |-> [SecondsPerPoint |-> retS.val, RetentionSecs |-> resS.val]]

\* parseRetentionSpec after both sides went through fromHuman
PairResult(resS, retS) ==
    IF ~resS.ok THEN [ok |-> FALSE, spec |-> <<>>]
    ELSE IF ~retS.ok THEN [ok |-> FALSE, spec |-> <<>>]
    ELSE [ok |-> TRUE,
          spec |-> [SecondsPerPoint |-> resS.val, RetentionSecs |-> retS.val]]

\* a parseRetentionSpec that reads the first two parts and ignores the rest
PairFromPartsLoose(parts) ==
    IF Len(parts) < 2 THEN [ok |-> FALSE, spec |-> <<>>]
    ELSE PairResult(fromHuman(TrimSpace(parts[1])),
                    fromHuman(TrimSpace(parts[2])))

\* parseRetentionSpec after parts := strings.Split(pair, ":")
PairFromParts(parts) ==
    IF Len(parts) # 2 THEN [ok |-> FALSE, spec |-> <<>>]
    ELSE PairResult(fromHuman(TrimSpace(parts[1])),
                    fromHuman(TrimSpace(parts[2])))

parseRetentionSpec(pair) == PairFromParts(Split(pair, ":"))

\* the loop of parseRetentionList over the comma-separated tokens: i is the
\* token in turn, out the specs appended so far
RECURSIVE ParseTokens(_, _, _)
ParseTokenResult(tokens, i, out, r) ==
    IF ~r.ok THEN [ok |-> FALSE, out |-> <<>>]
    ELSE ParseTokens(tokens, i + 1, Append(out, r.spec))

ParseToken(tokens, i, out, p) ==
    IF p = <<>> THEN ParseTokens(tokens, i + 1, out)
    ELSE ParseTokenResult(tokens, i, out, parseRetentionSpec(p))

ParseTokens(tokens, i, out) ==
    IF i > Len(tokens) THEN [ok |-> TRUE, out |-> out]
    ELSE ParseToken(tokens, i, out, TrimSpace(tokens[i]))

\* the same loop without the `if p == "" { continue }` step
RECURSIVE ParseTokensNoSkip(_, _, _)
ParseTokenResultNoSkip(tokens, i, out, r) ==
    IF ~r.ok THEN [ok |-> FALSE, out |-> <<>>]
    ELSE ParseTokensNoSkip(tokens, i + 1, Append(out, r.spec))

ParseTokensNoSkip(tokens, i, out) ==
    IF i > Len(tokens) THEN [ok |-> TRUE, out |-> out]
    ELSE ParseTokenResultNoSkip(tokens, i, out,
                                parseRetentionSpec(TrimSpace(tokens[i])))

\* the end of parseRetentionList: an empty result is an error
ListResult(r) ==
    IF ~r.ok THEN [ok |-> FALSE, out |-> <<>>]
    ELSE IF Len(r.out) = 0 THEN [ok |-> FALSE, out |-> <<>>]
    ELSE r

parseRetentionListNoSkip(s) ==
    ListResult(ParseTokensNoSkip(Split(s, ","), 1, <<>>))

parseRetentionList(s) == ListResult(ParseTokens(Split(s, ","), 1, <<>>))

\* -------------------------------------------------- retention comparison
RECURSIVE CompareFrom(_, _, _)
CompareFrom(a, b, i) ==
    IF i > Len(a) THEN TRUE
    ELSE IF a[i].SecondsPerPoint # b[i].SecondsPerPoint
            \/ a[i].RetentionSecs # b[i].RetentionSecs
         THEN FALSE
         ELSE CompareFrom(a, b, i + 1)

\* a comparison that looks at the resolutions only
RECURSIVE CompareResolutionsFrom(_, _, _)
CompareResolutionsFrom(a, b, i) ==
    IF i > Len(a) THEN TRUE
    ELSE IF a[i].SecondsPerPoint # b[i].SecondsPerPoint THEN FALSE
         ELSE CompareResolutionsFrom(a, b, i + 1)

compareResolutionsEqual(a, b) ==
    IF Len(a) # Len(b) THEN FALSE ELSE CompareResolutionsFrom(a, b, 1)

compareSpecsEqual(a, b) ==
    IF Len(a) # Len(b) THEN FALSE ELSE CompareFrom(a, b, 1)

\* ------------------------------------------------------ regexp (external)
\* *regexp.Regexp is an external type.  A compiled pattern is represented by
\* its source text, the nil pointer by Nil.  Metric names are sequences of
\* path components separated by ".", and the patterns used are the ones
\* below, with their unanchored-search meaning.
Nil == "<nil>"

RegexCompiles(p) == p # "("

MatchString(p, metric) ==
    IF p = "^a" THEN metric # <<>> /\ metric[1] = "a"
    ELSE IF p = "x$" THEN metric # <<>> /\ metric[Len(metric)] = "x"
    ELSE IF p = ".*" THEN TRUE
    ELSE \E i \in 1..Len(metric) : metric[i] = p

\* a discovered file is the sequence of its path components below the root,
\* the last one without its .wsp suffix; MetricFromPath joins them with "."
RECURSIVE MetricFromPath(_)
MetricFromPath(f) ==
    IF Len(f) <= 1 THEN f
    ELSE <<Head(f), ".">> \o MetricFromPath(Tail(f))

\* ------------------------------------------------------------ the inputs
RetOne == <<"1", "0", "s", ":", "6", "h">>
RetTwo == <<"1", "0", "s", ":", "6", "h", ",", " ", "1", "m", ":", "7", "d">>
RetBad == <<"1", "0", "s">>

\* the lines of a policy file, after trimming and comment stripping
BlankLine == [kind |-> "blank"]
Header(name) == [kind |-> "header", name |-> name]
PatternLine(val) == [kind |-> "kv", key |-> "pattern", pat |-> val]
RetentionsLine(val) == [kind |-> "kv", key |-> "retentions", ret |-> val]
OtherKeyLine == [kind |-> "kv", key |-> "other"]

PolicyLines ==
    {BlankLine, OtherKeyLine}
    \cup {Header(n) : n \in {"", "a"}}
    \cup {PatternLine(v) : v \in {"", "^a", "("}}
    \cup {RetentionsLine(v) : v \in {<<>>, RetOne, RetBad}}

SeqsUpTo(S, n) == UNION {[1..k -> S] : k \in 0..n}

PolicyFiles == SeqsUpTo(PolicyLines, MaxLines)

\* ---------------------------------------------------------------- state
VARIABLES
    \* duration codec: the seconds value, its token and the decoded result
    secs, token, decoded, dpc,
    \* retention-list codec: the tier list, its text and the parsed result
    specs, formatter, text, parsed, rpc,
    \* retention comparison: the two lists and the verdict
    specsA, specsB, equal, cpc,
    \* ParseStorageSchemas: input file, locals of the function, its return
    file, lineNo, sectionLine, curName, curPattern, curRetentions, schemas,
    ret, ppc,
    \* CountDefinitions and the check-retention loop of main
    cmd, files, fi, counts, matched, outcomes, mismatchFound, exitOnMismatch,
    exitCode, mpc,
    \* retention text parsing: the text, the results of parseRetentionSpec
    \* and parseRetentionList on it, the step in turn
    input, pairRes, listRes, tpc

durationVars == <<secs, token, decoded, dpc>>
retentionVars == <<specs, formatter, text, parsed, rpc>>
compareVars == <<specsA, specsB, equal, cpc>>
parserVars == <<file, lineNo, sectionLine, curName, curPattern,
                curRetentions, ret, ppc>>
runVars == <<cmd, files, fi, counts, matched, outcomes, mismatchFound,
             exitOnMismatch, exitCode, mpc>>
tokenVars == <<input, pairRes, listRes, tpc>>
vars == <<durationVars, retentionVars, compareVars, parserVars, schemas,
          runVars, tokenVars>>

\* the parts of the state a specification does not exercise stay idle
DurationIdle == secs = 0 /\ token = <<>> /\ decoded = <<>> /\ dpc = "idle"
RetentionIdle ==
    /\ specs = <<>> /\ formatter = "none" /\ text = <<>> /\ parsed = <<>>
    /\ rpc = "idle"
CompareIdle == specsA = <<>> /\ specsB = <<>> /\ equal = FALSE /\ cpc = "idle"
ParserIdle ==
    /\ file = <<>> /\ lineNo = 0 /\ sectionLine = 0 /\ curName = ""
    /\ curPattern = "" /\ curRetentions = <<>> /\ ret = <<>> /\ ppc = "idle"
RunIdle ==
    /\ cmd = "none" /\ files = <<>> /\ fi = 0 /\ counts = <<>> /\ matched = 0
    /\ outcomes = <<>>
    /\ mismatchFound = FALSE /\ exitOnMismatch = TRUE /\ exitCode = 0
    /\ mpc = "idle"
TokenIdle ==
    input = <<>> /\ pairRes = <<>> /\ listRes = <<>> /\ tpc = "idle"

\* --------------------------------------------------- ParseStorageSchemas
\* flushSection once both texts are known to be usable: append and reset
Flushed(name, pat, rets, sch, line) ==
    [err |-> FALSE, curName |-> "", curPattern |-> "", curRetentions |-> <<>>,
     schemas |-> Append(sch, [Name |-> name, PatternRaw |-> pat,
                              Pattern |-> IF pat # "" THEN pat ELSE Nil,
                              Retentions |-> rets, LineNo |-> line])]

Kept(err, name, pat, rets, sch) ==
    [err |-> err, curName |-> name, curPattern |-> pat,
     curRetentions |-> rets, schemas |-> sch]

\* flushSection from `var retSpecs []ArchiveSpec` on, rs being the result of
\* parseRetentionList(curRetentions)
FlushRetentions(name, pat, rets, sch, line, rs) ==
    IF rets = <<>> THEN Flushed(name, pat, <<>>, sch, line)
    ELSE IF ~rs.ok THEN Kept(TRUE, name, pat, rets, sch)
    ELSE Flushed(name, pat, rs.out, sch, line)

\* flushSection variants: one that drops a retentions text it cannot parse
\* instead of failing, one that records the line after the header
FlushRetentionsLenient(name, pat, rets, sch, line, rs) ==
    IF rets = <<>> \/ ~rs.ok THEN Flushed(name, pat, <<>>, sch, line)
    ELSE Flushed(name, pat, rs.out, sch, line)

flushSectionLenient(name, pat, rets, sch, line) ==
    IF name = "" THEN Kept(FALSE, name, pat, rets, sch)
    ELSE IF pat = "" /\ rets = <<>> THEN Kept(FALSE, "", pat, rets, sch)
    ELSE IF pat # "" /\ ~RegexCompiles(pat) THEN Kept(TRUE, name, pat, rets, sch)
    ELSE FlushRetentionsLenient(name, pat, rets, sch, line,
                                parseRetentionList(rets))

flushSectionNextLine(name, pat, rets, sch, line) ==
    IF name = "" THEN Kept(FALSE, name, pat, rets, sch)
    ELSE IF pat = "" /\ rets = <<>> THEN Kept(FALSE, "", pat, rets, sch)
    ELSE IF pat # "" /\ ~RegexCompiles(pat) THEN Kept(TRUE, name, pat, rets, sch)
    ELSE FlushRetentions(name, pat, rets, sch, line + 1,
                         parseRetentionList(rets))

\* the closure flushSection, as a function of the variables it captures
flushSection(name, pat, rets, sch, line) ==
    IF name = "" THEN Kept(FALSE, name, pat, rets, sch)
    ELSE IF pat = "" /\ rets = <<>> THEN Kept(FALSE, "", pat, rets, sch)
    ELSE IF pat # "" /\ ~RegexCompiles(pat) THEN Kept(TRUE, name, pat, rets, sch)
    ELSE FlushRetentions(name, pat, rets, sch, line, parseRetentionList(rets))

ParseInit ==
    /\ file \in PolicyFiles
    /\ lineNo = 0 /\ sectionLine = 0
    /\ curName = "" /\ curPattern = "" /\ curRetentions = <<>>
    /\ schemas = <<>>
    /\ ret = <<>>
    /\ ppc = "open"
    /\ DurationIdle /\ RetentionIdle /\ CompareIdle /\ RunIdle /\ TokenIdle

ParserOnly ==
    UNCHANGED <<durationVars, retentionVars, compareVars, runVars, tokenVars>>

\* os.Open(path) either fails, and the function returns the error, or not
Open ==
    /\ ppc = "open"
    /\ \E ok \in BOOLEAN :
         IF ok THEN ppc' = "scan" /\ ret' = ret
         ELSE ppc' = "done" /\ ret' = [ok |-> FALSE, schemas |-> <<>>]
    /\ UNCHANGED <<file, lineNo, sectionLine, curName, curPattern,
                   curRetentions, schemas>>
    /\ ParserOnly

\* a section header line: flush the previous section, then start the new one
ScanHeader(name, fl) ==
    IF fl.err
    THEN /\ ret' = [ok |-> FALSE, schemas |-> <<>>]
         /\ ppc' = "done"
         /\ UNCHANGED <<sectionLine, curName, curPattern, curRetentions,
                        schemas>>
    ELSE /\ curName' = name
         /\ sectionLine' = lineNo'
         /\ curPattern' = fl.curPattern
         /\ curRetentions' = fl.curRetentions
         /\ schemas' = fl.schemas
         /\ UNCHANGED <<ret, ppc>>

\* a key = value line
ScanKey(line) ==
    /\ IF line.key = "pattern"
       THEN curPattern' = line.pat /\ UNCHANGED curRetentions
       ELSE IF line.key = "retentions"
       THEN curRetentions' = line.ret /\ UNCHANGED curPattern
       ELSE UNCHANGED <<curPattern, curRetentions>>
    /\ UNCHANGED <<sectionLine, curName, schemas, ret, ppc>>

ScanStep(line) ==
    IF line.kind = "blank"
    THEN UNCHANGED <<sectionLine, curName, curPattern, curRetentions,
                     schemas, ret, ppc>>
    ELSE IF line.kind = "header"
    THEN ScanHeader(line.name,
                    flushSection(curName, curPattern, curRetentions, schemas,
                                 sectionLine))
    ELSE ScanKey(line)

\* one iteration of `for scanner.Scan()`
ScanLine ==
    /\ ppc = "scan"
    /\ lineNo < Len(file)
    /\ lineNo' = lineNo + 1
    /\ ScanStep(file[lineNo + 1])
    /\ UNCHANGED file
    /\ ParserOnly

\* the return of ParseStorageSchemas after the last flush
ReturnAfter(fl) ==
    IF fl.err
    THEN /\ ret' = [ok |-> FALSE, schemas |-> <<>>]
         /\ UNCHANGED <<curName, curPattern, curRetentions, schemas>>
    ELSE /\ curName' = fl.curName
         /\ curPattern' = fl.curPattern
         /\ curRetentions' = fl.curRetentions
         /\ schemas' = fl.schemas
         /\ \E scanErr \in BOOLEAN :
              ret' = IF scanErr THEN [ok |-> FALSE, schemas |-> <<>>]
                     ELSE [ok |-> TRUE, schemas |-> schemas']

\* end of input: the last flush, scanner.Err() and the return
FlushLast ==
    /\ ppc = "scan"
    /\ lineNo = Len(file)
    /\ ReturnAfter(flushSection(curName, curPattern, curRetentions, schemas,
                                sectionLine))
    /\ ppc' = "done"
    /\ UNCHANGED <<file, lineNo, sectionLine>>
    /\ ParserOnly

ParseNext == Open \/ ScanLine \/ FlushLast

SpecParse == ParseInit /\ [][ParseNext]_vars

\* ------------------------------------------- the sections of a policy file
Max(S) == CHOOSE x \in S : \A y \in S : y <= x

Min(S) == CHOOSE x \in S : \A y \in S : x <= y

IsHeader(h) == h \in 1..Len(file) /\ file[h].kind = "header"

IsNamedHeader(h) == IsHeader(h) /\ file[h].name # ""

\* the line after the last line of the section whose header is line h
SectionEnd(h) ==
    LET later == {k \in (h + 1)..Len(file) : IsHeader(k)}
    IN  IF later = {} THEN Len(file) + 1 ELSE Min(later)

KeyLines(h, key) ==
    {k \in (h + 1)..(SectionEnd(h) - 1) :
        file[k].kind = "kv" /\ file[k].key = key}

\* the pattern and retentions text given between header h and the next header
\* (the last assignment counts), empty when the section does not give one
OwnPattern(h) ==
    IF KeyLines(h, "pattern") = {} THEN ""
    ELSE file[Max(KeyLines(h, "pattern"))].pat

OwnRetentions(h) ==
    IF KeyLines(h, "retentions") = {} THEN <<>>
    ELSE file[Max(KeyLines(h, "retentions"))].ret

Malformed(h) ==
    \/ OwnPattern(h) # "" /\ ~RegexCompiles(OwnPattern(h))
    \/ OwnRetentions(h) # <<>> /\ OwnRetentions(h) \notin {RetOne, RetTwo}

Returned == ppc = "done" /\ ret.ok

\* C2: parsing is all-or-nothing: when any named section of the file has a
\* pattern that does not compile or a retentions text that does not parse,
\* ParseStorageSchemas returns an error and an empty (nil) schema list, also
\* when earlier sections were already appended to the accumulator.
C2_AllOrNothing ==
    ppc = "done" /\ (\E h \in 1..Len(file) : IsNamedHeader(h) /\ Malformed(h))
        => ~ret.ok /\ ret.schemas = <<>>

C2_Witness ==
    /\ ppc = "done" /\ ~ret.ok /\ ret.schemas = <<>>
    /\ Len(schemas) > 0
    /\ \E h \in 1..Len(file) :
         IsNamedHeader(h) /\ h > 1 /\ OwnRetentions(h) = RetBad

\* C3: on success the returned schemas are in the file order of their section
\* headers: every LineNo is the line of a header carrying the schema's name,
\* and LineNo is strictly increasing along the returned sequence.
C3_LineNoOrder ==
    Returned =>
        /\ \A i \in 1..Len(ret.schemas) :
             /\ IsNamedHeader(ret.schemas[i].LineNo)
             /\ file[ret.schemas[i].LineNo].name = ret.schemas[i].Name
        /\ \A i, j \in 1..Len(ret.schemas) :
             i < j => ret.schemas[i].LineNo < ret.schemas[j].LineNo

C3_Witness ==
    /\ Returned /\ Len(ret.schemas) = 2
    /\ ret.schemas[1].LineNo = 1 /\ ret.schemas[2].LineNo = 3

\* C4: flush keeps or drops a section by what it contains, so the number of
\* schemas returned equals the number of named sections that give at least one
\* of the two keys; a retentions-only section yields an absent pattern and a
\* pattern-only section an empty retention list.
C4_KeptSections ==
    Returned =>
        /\ Len(ret.schemas) =
             Cardinality({h \in 1..Len(file) :
                 IsNamedHeader(h)
                 /\ (OwnPattern(h) # "" \/ OwnRetentions(h) # <<>>)})
        /\ \A i \in 1..Len(ret.schemas) :
             LET h == ret.schemas[i].LineNo
             IN  /\ OwnPattern(h) = "" => ret.schemas[i].Pattern = Nil
                 /\ OwnRetentions(h) = <<>> => ret.schemas[i].Retentions = <<>>

\* ------------------------------------------ the inputs of a run of the tool
\* the discovered .wsp files, as path components below the root
WspFiles == {<<"a", "x">>, <<"b", "y">>}

\* what a schema list returned by the parser can hold: a compiled or absent
\* pattern, and a parsed or empty retention list
TierTenSec == [SecondsPerPoint |-> 10, RetentionSecs |-> 21600]

SchemaChoices ==
    [Pattern : {Nil, "^a", ".*"}, Retentions : {<<>>, <<TierTenSec>>}]

SectionNames == <<"s1", "s2", "s3", "s4">>

MkSchemas(choice) ==
    [i \in 1..Len(choice) |->
        [Name |-> SectionNames[i],
         PatternRaw |-> IF choice[i].Pattern = Nil THEN "" ELSE choice[i].Pattern,
         Pattern |-> choice[i].Pattern,
         Retentions |-> choice[i].Retentions,
         LineNo |-> 3 * i - 2]]

\* the archives a whisper file can report: (secondsPerPoint, numberOfPoints)
WhisperRetentions ==
    { <<[secondsPerPoint |-> 10, numberOfPoints |-> 2160]>>,
      <<[secondsPerPoint |-> 60, numberOfPoints |-> 1440]>> }

whisperRetentionsToSpecs(retentions) ==
    [i \in 1..Len(retentions) |->
        [SecondsPerPoint |-> retentions[i].secondsPerPoint,
         RetentionSecs |-> retentions[i].secondsPerPoint
                           * retentions[i].numberOfPoints]]

\* ------------------------------------------------------ schema resolution
\* the counting loop without its `break`: the last match is the one kept
RECURSIVE CountMatchLast(_, _, _, _)
CountMatchLast(cs, metric, i, sofar) ==
    IF i > Len(cs) THEN sofar
    ELSE IF cs[i].Definition.Pattern = Nil
    THEN CountMatchLast(cs, metric, i + 1, sofar)
    ELSE IF MatchString(cs[i].Definition.Pattern, metric)
         THEN CountMatchLast(cs, metric, i + 1, i)
         ELSE CountMatchLast(cs, metric, i + 1, sofar)

CountMatchNoBreak(cs, metric, i) == CountMatchLast(cs, metric, i, 0)

\* the inner loop of CountDefinitions from index i on: the index of the
\* counter it increments, 0 when it runs to the end
RECURSIVE CountMatch(_, _, _)
CountMatch(cs, metric, i) ==
    IF i > Len(cs) THEN 0
    ELSE IF cs[i].Definition.Pattern = Nil THEN CountMatch(cs, metric, i + 1)
    ELSE IF MatchString(cs[i].Definition.Pattern, metric) THEN i
    ELSE CountMatch(cs, metric, i + 1)

\* the inner loop of main from index i on: the index `matched` points at,
\* 0 for nil
RECURSIVE LastMatch(_, _, _, _)
LastMatch(ss, metric, i, sofar) ==
    IF i > Len(ss) THEN sofar
    ELSE IF ss[i].Pattern = Nil THEN LastMatch(ss, metric, i + 1, sofar)
    ELSE IF MatchString(ss[i].Pattern, metric)
         THEN LastMatch(ss, metric, i + 1, i)
         ELSE LastMatch(ss, metric, i + 1, sofar)

\* the loop without its `break`
FindMatchedNoBreak(ss, metric, i) == LastMatch(ss, metric, i, 0)

RECURSIVE FindMatched(_, _, _)
FindMatched(ss, metric, i) ==
    IF i > Len(ss) THEN 0
    ELSE IF ss[i].Pattern = Nil THEN FindMatched(ss, metric, i + 1)
    ELSE IF MatchString(ss[i].Pattern, metric) THEN i
    ELSE FindMatched(ss, metric, i + 1)

\* ------------------------------------------------------------- the run
RunInit ==
    /\ cmd \in {"schema", "check-retention"}
    /\ schemas \in {MkSchemas(c) : c \in SeqsUpTo(SchemaChoices, MaxSchemas)}
    /\ files \in SeqsUpTo(WspFiles, MaxFiles)
    /\ exitOnMismatch \in BOOLEAN
    /\ fi = 0 /\ counts = <<>> /\ matched = 0 /\ outcomes = <<>>
    /\ mismatchFound = FALSE /\ exitCode = 0
    /\ mpc = "start"
    /\ DurationIdle /\ RetentionIdle /\ CompareIdle /\ ParserIdle
    /\ TokenIdle

RunOnly ==
    UNCHANGED <<durationVars, retentionVars, compareVars, parserVars, schemas,
                tokenVars, cmd, files, exitOnMismatch>>

\* both commands stop with log.Fatalf when no .wsp file was found
NoFiles ==
    /\ mpc = "start" /\ files = <<>>
    /\ exitCode' = 1 /\ mpc' = "done"
    /\ UNCHANGED <<fi, counts, matched, outcomes, mismatchFound>>
    /\ RunOnly

\* CountDefinitions: the count list, one entry per schema
MakeCounts ==
    /\ mpc = "start" /\ cmd = "schema" /\ files # <<>>
    /\ counts' = [i \in 1..Len(schemas) |->
                     [Definition |-> schemas[i], Count |-> 0]]
    /\ mpc' = "count"
    /\ UNCHANGED <<fi, matched, outcomes, mismatchFound, exitCode>>
    /\ RunOnly

Increment(cs, i) ==
    IF i = 0 THEN cs ELSE [cs EXCEPT ![i].Count = cs[i].Count + 1]

\* CountDefinitions: one iteration of `for _, f := range files`
CountFile ==
    /\ mpc = "count" /\ fi < Len(files)
    /\ fi' = fi + 1
    /\ counts' = Increment(counts,
                           CountMatch(counts, MetricFromPath(files[fi + 1]), 1))
    /\ UNCHANGED <<matched, outcomes, mismatchFound, exitCode, mpc>>
    /\ RunOnly

\* CountDefinitions returns and the command prints the counts
CountReturn ==
    /\ mpc = "count" /\ fi = Len(files)
    /\ mpc' = "done"
    /\ UNCHANGED <<fi, counts, matched, outcomes, mismatchFound, exitCode>>
    /\ RunOnly

\* main, check-retention mode: table header and mismatchFound := false
CheckStart ==
    /\ mpc = "start" /\ cmd = "check-retention" /\ files # <<>>
    /\ mismatchFound' = FALSE
    /\ mpc' = "check"
    /\ UNCHANGED <<fi, counts, matched, outcomes, exitCode>>
    /\ RunOnly

RootPath == <<"/">>

Row(status, metric, expected, actual) ==
    [status |-> status, metric |-> metric, expected |-> expected,
     actual |-> actual]

\* the end of an iteration whose file was opened and closed
Verdict(metric, expectedSpecs, actualSpecs) ==
    /\ outcomes' = Append(outcomes,
           Row(IF compareSpecsEqual(actualSpecs, expectedSpecs)
               THEN "OK" ELSE "MISMATCH",
               metric, formatRetentionList(expectedSpecs),
               formatRetentionList(actualSpecs)))
    /\ mismatchFound' =
           IF compareSpecsEqual(actualSpecs, expectedSpecs)
           THEN mismatchFound ELSE TRUE
    /\ UNCHANGED <<exitCode, mpc>>

\* one iteration of the loop over files, m being the index `matched` holds
CheckStep(metric, m, openOk, closeOk, retentions) ==
    /\ matched' = m
    /\ IF m = 0
       THEN /\ outcomes' = Append(outcomes, Row("NOMATCH", metric, <<>>, <<>>))
            /\ UNCHANGED <<mismatchFound, exitCode, mpc>>
       ELSE IF ~openOk
       THEN /\ outcomes' = Append(outcomes, Row("ERROR", metric, <<>>, <<>>))
            /\ mismatchFound' = TRUE
            /\ UNCHANGED <<exitCode, mpc>>
       ELSE IF ~closeOk
       THEN /\ outcomes' = Append(outcomes, Row("ERROR", RootPath, <<>>, <<>>))
            /\ exitCode' = 0
            /\ mpc' = "done"
            /\ UNCHANGED mismatchFound
       ELSE Verdict(metric, schemas[m].Retentions,
                    whisperRetentionsToSpecs(retentions))

CheckFile ==
    /\ mpc = "check" /\ fi < Len(files)
    /\ fi' = fi + 1
    /\ \E openOk, closeOk \in BOOLEAN, retentions \in WhisperRetentions :
         CheckStep(MetricFromPath(files[fi + 1]),
                   FindMatched(schemas, MetricFromPath(files[fi + 1]), 1),
                   openOk, closeOk, retentions)
    /\ UNCHANGED counts
    /\ RunOnly

\* after the loop: wr.Flush() and the exit status
CheckEnd ==
    /\ mpc = "check" /\ fi = Len(files)
    /\ \E flushOk \in BOOLEAN :
         exitCode' = IF flushOk /\ mismatchFound /\ exitOnMismatch THEN 1 ELSE 0
    /\ mpc' = "done"
    /\ UNCHANGED <<fi, counts, matched, outcomes, mismatchFound>>
    /\ RunOnly

RunNext ==
    \/ NoFiles
    \/ MakeCounts \/ CountFile \/ CountReturn
    \/ CheckStart \/ CheckFile \/ CheckEnd

SpecRun == RunInit /\ [][RunNext]_vars

\* -------------------------------------------------- claims about the run
MetricOf(k) == MetricFromPath(files[k])

\* schema i has a compiled pattern and it matches the metric
Hit(i, metric) ==
    schemas[i].Pattern # Nil /\ MatchString(schemas[i].Pattern, metric)

\* m is the smallest index that hits, or 0 and no schema hits
Selected(m, metric) ==
    IF m = 0 THEN \A i \in 1..Len(schemas) : ~Hit(i, metric)
    ELSE /\ m \in 1..Len(schemas) /\ Hit(m, metric)
         /\ \A j \in 1..(m - 1) : ~Hit(j, metric)

\* C1: first match wins.  In every iteration of the check-retention loop
\* `matched` ends at the smallest index whose pattern is present and matches
\* the file's metric (nil exactly when none does), and in every iteration of
\* the counting loop the counter incremented is the one at that index and no
\* other counter changes.
C1_FirstMatchWins ==
    [][/\ mpc = "check" /\ fi' = fi + 1 => Selected(matched', MetricOf(fi'))
       /\ mpc = "count" /\ fi' = fi + 1 =>
            \A i \in 1..Len(counts) :
                counts'[i].Count =
                    counts[i].Count
                    + (IF Selected(i, MetricOf(fi')) THEN 1 ELSE 0)]_vars

C1_Witness ==
    /\ cmd = "check-retention" /\ fi = 1 /\ Len(schemas) = 2
    /\ schemas[1].Pattern = "^a" /\ schemas[2].Pattern = ".*"
    /\ Hit(1, MetricOf(1)) /\ Hit(2, MetricOf(1))
    /\ matched = 1

RECURSIVE SumCounts(_, _)
SumCounts(cs, i) ==
    IF i > Len(cs) THEN 0 ELSE cs[i].Count + SumCounts(cs, i + 1)

\* C5: CountDefinitions keeps one counter per schema, in schema order and
\* starting at zero; after any number of files each counter holds the number
\* of files whose first matching schema it is, so the counters sum to the
\* number of files that matched some schema, which is at most the number of
\* files.
C5_Counting ==
    cmd = "schema" /\ (mpc = "count" \/ (mpc = "done" /\ files # <<>>)) =>
        /\ Len(counts) = Len(schemas)
        /\ \A i \in 1..Len(counts) :
             /\ counts[i].Definition = schemas[i]
             /\ counts[i].Count =
                    Cardinality({k \in 1..fi : Selected(i, MetricOf(k))})
        /\ SumCounts(counts, 1) =
               Cardinality({k \in 1..fi :
                   \E i \in 1..Len(schemas) : Hit(i, MetricOf(k))})
        /\ SumCounts(counts, 1) <= Len(files)

C5_Witness ==
    /\ cmd = "schema" /\ mpc = "done" /\ Len(schemas) = 2 /\ Len(files) = 3
    /\ schemas[2].Pattern = Nil
    /\ counts[1].Count = 2 /\ counts[2].Count = 0

\* C6: per-file failures are isolated: when a check-retention run over a
\* non-empty file list has ended, every file of the list has an outcome.
C6_FailuresIsolated ==
    cmd = "check-retention" /\ mpc = "done" /\ files # <<>> =>
        Len(outcomes) = Len(files)

\* ------------------------------------------------ exercising the codecs
Units == {Minute, Hour, Day, Year}

\* seconds values: a dense range around zero, and the multiples of every
\* unit with their neighbours
SecondsRange ==
    (-MaxSecs..MaxSecs)
    \cup {k * u + r : k \in (-MaxMult)..MaxMult, u \in Units, r \in {-1, 0, 1}}

DurationInit ==
    /\ secs \in SecondsRange
    /\ token = <<>> /\ decoded = <<>> /\ dpc = "start"
    /\ RetentionIdle /\ CompareIdle /\ ParserIdle /\ schemas = <<>> /\ RunIdle
    /\ TokenIdle

Encode ==
    /\ dpc = "start"
    /\ token' = ToHuman(secs)
    /\ dpc' = "encoded"
    /\ UNCHANGED <<secs, decoded, retentionVars, compareVars, parserVars,
                   schemas, runVars,
                   tokenVars>>

Decode ==
    /\ dpc = "encoded"
    /\ decoded' = fromHuman(token)
    /\ dpc' = "decoded"
    /\ UNCHANGED <<secs, token, retentionVars, compareVars, parserVars,
                   schemas, runVars,
                   tokenVars>>

DurationNext == Encode \/ Decode

SpecDuration == DurationInit /\ [][DurationNext]_vars

\* C7: duration round trip: for every seconds value of the range, decoding
\* the token ToHuman produced succeeds and gives the value back.
C7_DurationRoundTrip ==
    dpc = "decoded" => decoded.ok /\ decoded.val = secs

C7_Witness ==
    /\ dpc = "decoded" /\ secs = 2 * Hour
    /\ token = <<"2", "h">> /\ decoded = [ok |-> TRUE, val |-> 7200]

\* the tier lists formatted and parsed back
ArchiveSpecs ==
    [SecondsPerPoint : {0, 10, 60}, RetentionSecs : {90, 3600, 31536000}]

RetentionInit ==
    /\ specs \in SeqsUpTo(ArchiveSpecs, MaxSpecs)
    /\ formatter = "none" /\ text = <<>> /\ parsed = <<>> /\ rpc = "start"
    /\ DurationIdle /\ CompareIdle /\ ParserIdle /\ schemas = <<>> /\ RunIdle
    /\ TokenIdle

RetentionOnly ==
    UNCHANGED <<specs, durationVars, compareVars, parserVars, schemas, runVars,
                   tokenVars>>

FormatLibPrealloc ==
    /\ rpc = "start"
    /\ text' = FormatRetentionListPrealloc(specs)
    /\ formatter' = "lib-prealloc" /\ rpc' = "formatted"
    /\ UNCHANGED parsed
    /\ RetentionOnly

FormatLib ==
    /\ rpc = "start"
    /\ text' = FormatRetentionList(specs)
    /\ formatter' = "lib" /\ rpc' = "formatted"
    /\ UNCHANGED parsed
    /\ RetentionOnly

FormatCmd ==
    /\ rpc = "start"
    /\ text' = formatRetentionList(specs)
    /\ formatter' = "cmd" /\ rpc' = "formatted"
    /\ UNCHANGED parsed
    /\ RetentionOnly

ParseList ==
    /\ rpc = "formatted"
    /\ parsed' = parseRetentionList(text)
    /\ rpc' = "parsed"
    /\ UNCHANGED <<formatter, text>>
    /\ RetentionOnly

RetentionNext == FormatLibPrealloc \/ FormatLib \/ FormatCmd \/ ParseList

SpecRetention == RetentionInit /\ [][RetentionNext]_vars

\* C8: retention-list round trip: for every tier list with at least one tier
\* (the lists the policy grammar can express), parsing the formatted text
\* succeeds and gives back the same tiers in the same order, whichever of the
\* formatters produced the text.
C8_ListRoundTrip ==
    rpc = "parsed" /\ specs # <<>> => parsed.ok /\ parsed.out = specs

C8_Witness ==
    /\ rpc = "parsed" /\ Len(specs) = 2 /\ specs[1] # specs[2]
    /\ specs[1].RetentionSecs = 90
    /\ parsed.ok /\ parsed.out = specs

\* the text the claim describes: tier i is ToHuman(resolution) ":"
\* ToHuman(total), tiers are separated by single commas
RECURSIVE CommaSeparated(_, _)
CommaSeparated(list, i) ==
    IF i > Len(list) THEN <<>>
    ELSE (IF i = 1 THEN <<>> ELSE <<",">>)
         \o ToHuman(list[i].SecondsPerPoint) \o <<":">>
         \o ToHuman(list[i].RetentionSecs)
         \o CommaSeparated(list, i + 1)

\* C9: the formatted list is exactly the tiers' texts in order joined by
\* single commas: Len(specs) fields, none empty, no leading or trailing comma.
C9_FormattedText ==
    rpc \in {"formatted", "parsed"} =>
        /\ text = CommaSeparated(specs, 1)
        /\ specs # <<>> =>
             /\ Len(Split(text, ",")) = Len(specs)
             /\ \A i \in 1..Len(Split(text, ",")) : Split(text, ",")[i] # <<>>

\* the lists compared
TierSpecs == [SecondsPerPoint : {10, 60}, RetentionSecs : {600, 3600}]

CompareInit ==
    /\ specsA \in SeqsUpTo(TierSpecs, MaxSpecs)
    /\ specsB \in SeqsUpTo(TierSpecs, MaxSpecs)
    /\ equal = FALSE /\ cpc = "start"
    /\ DurationIdle /\ RetentionIdle /\ ParserIdle /\ schemas = <<>> /\ RunIdle
    /\ TokenIdle

Compare ==
    /\ cpc = "start"
    /\ equal' = compareSpecsEqual(specsA, specsB)
    /\ cpc' = "done"
    /\ UNCHANGED <<specsA, specsB, durationVars, retentionVars, parserVars,
                   schemas, runVars,
                   tokenVars>>

CompareNext == Compare

SpecCompare == CompareInit /\ [][CompareNext]_vars

\* C10: compareSpecsEqual is strict sequence equality: true exactly when the
\* lists have the same length and agree in resolution and total retention at
\* every index.
C10_StrictEquality ==
    cpc = "done" =>
        (equal <=>
            /\ Len(specsA) = Len(specsB)
            /\ \A i \in 1..Len(specsA) :
                 /\ specsA[i].SecondsPerPoint = specsB[i].SecondsPerPoint
                 /\ specsA[i].RetentionSecs = specsB[i].RetentionSecs)

C10_Witness ==
    /\ cpc = "done" /\ ~equal
    /\ specsA = << [SecondsPerPoint |-> 10, RetentionSecs |-> 600],
                   [SecondsPerPoint |-> 60, RetentionSecs |-> 3600] >>
    /\ specsB = << [SecondsPerPoint |-> 60, RetentionSecs |-> 3600],
                   [SecondsPerPoint |-> 10, RetentionSecs |-> 600] >>

\* ------------------------------------------- parsing of retention texts
\* duration texts: two the decoder accepts as written, a signed one, one with
\* surrounding case and space, one without a number and the empty text
DurationTexts ==
    {<<"1", "0", "s">>, <<"-", "1", "s">>, <<" ", "6", "H">>, <<"x">>, <<>>}

\* texts handed to parseRetentionSpec: no colon, one colon, two colons
PairTexts ==
    DurationTexts
    \cup {Join(<<a, b>>, <<":">>) : a, b \in DurationTexts}
    \cup {<<"1", "0", "s", ":", "6", "h", ":", "1", "d">>}

TokenTexts == PairTexts \cup {<<" ">>}

\* texts handed to parseRetentionList: up to MaxTokens tokens between commas
RetentionTexts ==
    {Join(t, <<",">>) : t \in UNION {[1..k -> TokenTexts] : k \in 1..MaxTokens}}

\* policy files giving the text as a retentions value: under [], under [a],
\* and under [a] followed by a second retentions line
PoliciesWith(val) ==
    { <<Header(""), RetentionsLine(val)>>,
      <<Header("a"), RetentionsLine(val)>>,
      <<Header("a"), RetentionsLine(val), RetentionsLine(RetOne)>> }

TokensInit ==
    /\ input \in RetentionTexts
    /\ pairRes = <<>> /\ listRes = <<>> /\ tpc = "pair"
    /\ file \in PoliciesWith(TrimSpace(input))
    /\ lineNo = 0 /\ sectionLine = 0
    /\ curName = "" /\ curPattern = "" /\ curRetentions = <<>>
    /\ schemas = <<>>
    /\ ret = <<>>
    /\ ppc = "open"
    /\ DurationIdle /\ RetentionIdle /\ CompareIdle /\ RunIdle

\* parseRetentionSpec(input)
ParsePair ==
    /\ tpc = "pair"
    /\ pairRes' = parseRetentionSpec(input)
    /\ tpc' = "list"
    /\ UNCHANGED <<input, listRes, durationVars, retentionVars, compareVars,
                   parserVars, schemas, runVars>>

\* parseRetentionList(input)
ParseText ==
    /\ tpc = "list"
    /\ listRes' = parseRetentionList(input)
    /\ tpc' = "file"
    /\ UNCHANGED <<input, pairRes, durationVars, retentionVars, compareVars,
                   parserVars, schemas, runVars>>

\* ParseStorageSchemas on the policy file that gives the text
OpenPolicy == tpc = "file" /\ Open

ScanPolicyLine == tpc = "file" /\ ScanLine

FlushPolicy == tpc = "file" /\ FlushLast

TokensNext ==
    ParsePair \/ ParseText \/ OpenPolicy \/ ScanPolicyLine \/ FlushPolicy

SpecTokens == TokensInit /\ [][TokensNext]_vars

\* the tiers of a successful parse
NonNegative(spec) == spec.SecondsPerPoint >= 0 /\ spec.RetentionSecs >= 0

\* C11: every RetentionSpec of a successful parseRetentionSpec or
\* parseRetentionList has a non-negative resolution and a non-negative total
\* retention, whatever token the duration decoder accepted.
C11_NonNegative ==
    /\ tpc \in {"list", "file"} /\ pairRes.ok => NonNegative(pairRes.spec)
    /\ tpc = "file" /\ listRes.ok =>
         \A i \in 1..Len(listRes.out) : NonNegative(listRes.out[i])

\* what makes a text a malformed tier, read off the text itself
ColonCount(s) == Cardinality({i \in 1..Len(s) : s[i] = ":"})

ColonAt(s) == CHOOSE i \in 1..Len(s) : s[i] = ":"

PairMalformed(s) ==
    \/ ColonCount(s) # 1
    \/ ~fromHuman(SubSeq(s, 1, ColonAt(s) - 1)).ok
    \/ ~fromHuman(SubSeq(s, ColonAt(s) + 1, Len(s))).ok

Cuts(s) == {0, Len(s) + 1} \cup {i \in 1..Len(s) : s[i] = ","}

CommaTokens(s) ==
    {SubSeq(s, a + 1, b - 1) : <<a, b>> \in
        {c \in Cuts(s) \X Cuts(s) :
            c[1] < c[2] /\ \A k \in Cuts(s) : ~(c[1] < k /\ k < c[2])}}

Blank(t) == \A i \in 1..Len(t) : t[i] = " "

ListMalformed(s) ==
    \/ \E t \in CommaTokens(s) : ~Blank(t) /\ PairMalformed(t)
    \/ \A t \in CommaTokens(s) : Blank(t)

PairAndListRejected ==
    /\ tpc \in {"list", "file"} /\ PairMalformed(input) => ~pairRes.ok
    /\ tpc = "file" /\ ListMalformed(input) => ~listRes.ok

\* C12 as stated: parseRetentionSpec fails for every token without exactly
\* one colon or with a side the decoder rejects, parseRetentionList fails when
\* a non-blank token fails or no spec results, and a policy file containing
\* such a retentions value fails the whole parse.
C12_MalformedRejected ==
    /\ PairAndListRejected
    /\ /\ ppc = "done"
       /\ \E k \in 1..Len(file) :
            /\ file[k].kind = "kv" /\ file[k].key = "retentions"
            /\ ListMalformed(file[k].ret)
       => ~ret.ok

\* C12 amended: the same for the pair and the list; a policy file fails the
\* whole parse when the retentions value in force for a named section (its
\* last one) is not empty and is such a value.
C12_MalformedInSectionRejected ==
    /\ PairAndListRejected
    /\ /\ ppc = "done"
       /\ \E h \in 1..Len(file) :
            /\ IsNamedHeader(h)
            /\ OwnRetentions(h) # <<>>
            /\ ListMalformed(OwnRetentions(h))
       => ~ret.ok

C12_Witness ==
    /\ tpc = "file" /\ ppc = "done" /\ lineNo = Len(file)
    /\ ColonCount(input) = 2 /\ Cardinality(CommaTokens(input)) = 1
    /\ ~pairRes.ok /\ ~listRes.ok
    /\ IsNamedHeader(1) /\ OwnRetentions(1) = input
    /\ ~ret.ok

\* ------------------------------------------------ exit status of the run
\* C13: with exit-on-mismatch enabled, a check-retention run in which some
\* processed file had outcome MISMATCH ends with a non-zero exit status,
\* whatever happens to the files processed after it.
C13_ExitOnMismatch ==
    /\ cmd = "check-retention" /\ mpc = "done" /\ exitOnMismatch
    /\ \E k \in 1..Len(outcomes) : outcomes[k].status = "MISMATCH"
    => exitCode # 0

\* ------------------------------------------------- section attribution
\* the tiers a retentions text of the policy lines stands for
TiersOf(rets) == IF rets \in {RetOne} THEN <<TierTenSec>> ELSE <<>>

\* C14: every returned schema takes its pattern and its retentions only from
\* the key lines between its own header and the next header, and whenever a
\* header line has just been read the accumulator holds no pattern and no
\* retentions text.
C14_SectionAttribution ==
    /\ Returned =>
         \A i \in 1..Len(ret.schemas) :
             /\ ret.schemas[i].PatternRaw = OwnPattern(ret.schemas[i].LineNo)
             /\ ret.schemas[i].Retentions =
                    TiersOf(OwnRetentions(ret.schemas[i].LineNo))
    /\ ppc = "scan" /\ lineNo > 0 /\ IsHeader(lineNo) =>
         curPattern = "" /\ curRetentions = <<>>

====
